---------------------------- MODULE Spec2Model ----------------------------
(***************************************************************************)
(* A model of the 2D geometry kernel of nut_ros_lib: Vector2, Pose2D and   *)
(* Line2D (vector/vector2.h and the pose_2D.h / line_2D.h sections of      *)
(* type_handler/polygon_msg_generator.h).                                  *)
(*                                                                         *)
(* The numeric type T is modelled by exact scaled rationals.  A number is  *)
(* a record [n, d, k] that stands for  n / (d * EpsRoot^k),  with d > 0.   *)
(* The exponent k lets the model hold values of the size of the tolerance  *)
(* eps = 1e-10 = EpsRoot^-2 next to ordinary ones inside 32-bit integers.  *)
(* A square root is never evaluated: a length is carried as its square.    *)
(***************************************************************************)
EXTENDS Integers, Sequences, FiniteSets, TLC

VARIABLES
    line1,      \* Line2D: receiver / first argument of the Line2D queries
    line2,      \* Line2D: second argument of the intersection queries
    pt,         \* Pose2D: the point argument of the point queries
    op,         \* name of the last operation that ran ("none" before any)
    ret,        \* what the last operation returned
    out,        \* the lines written to std::cout so far
    vec,        \* Vector2: receiver of the Vector2 mutators
    pose,       \* Pose2D: receiver of the Pose2D mutators
    last,       \* arguments and receiver's value before the last mutator call
    prev,       \* the same for the call before it
    calls,      \* number of mutator calls made so far
    lhs,        \* Pose2D: first operand of the pairwise operators
    rhs,        \* Pose2D: second operand of the pairwise operators
    tparam,     \* the parameter t of lerp
    args,       \* arguments of the last call of a scalar utility or of PID
    pid,        \* PID: the controller object
    trace,      \* the <<error, dt>> of every update since the last reset
    limited     \* setSaturation was called and no setParam replaced it since

vars == <<line1, line2, pt, op, ret, out, vec, pose, last, prev, calls,
          lhs, rhs, tparam, args, pid, trace, limited>>

queryVars == <<line1, line2, pt, op, ret, out>>
mutatorVars == <<vec, pose, last, prev, calls>>
operandVars == <<lhs, rhs, tparam>>
controlVars == <<args, pid, trace, limited>>

-----------------------------------------------------------------------------
(* Bounds of the model *)

\* grid coordinates are the integers -1 .. MaxCoord (times the unit of the scale)
MaxCoord == 1

\* rotation angles: quarter turns -MaxQuarter .. MaxQuarter (and +-alpha)
MaxQuarter == 1

\* centres of rotation have coordinates 0 .. MaxCentre
MaxCentre == 1

\* number of mutator calls in one behaviour
MaxCalls == 2

\* number of lines written to std::cout in one behaviour
MaxOut == 1

-----------------------------------------------------------------------------
(* Exact arithmetic on T *)

\* eps = 1e-10 = 1 / EpsRoot^2
EpsRoot == 100000

AbsInt(i) == IF i < 0 THEN -i ELSE i

RECURSIVE GCD(_, _)
GCD(a, b) == IF b = 0 THEN a ELSE GCD(b, a % b)

RECURSIVE Pow(_)
Pow(e) == IF e = 0 THEN 1 ELSE EpsRoot * Pow(e - 1)

\* floor(x / EpsRoot^e) without forming EpsRoot^e
RECURSIVE FloorDivPow(_, _)
FloorDivPow(x, e) == IF e = 0 THEN x ELSE FloorDivPow(x \div EpsRoot, e - 1)

\* the number n / (d * EpsRoot^k) in lowest terms, d > 0
Norm(n, d, k) ==
    IF n = 0 THEN [n |-> 0, d |-> 1, k |-> 0]
    ELSE LET g == GCD(AbsInt(n), d)
         IN  [n |-> n \div g, d |-> d \div g, k |-> k]

\* the integer i counted in units of EpsRoot^-k
Num(i, k) == Norm(i, 1, k)
Whole(i) == Num(i, 0)
Zero == Whole(0)
One == Whole(1)

\* the result of a division by zero (an infinity or a NaN); it is absorbing
\* in the arithmetic and, like a NaN, makes every comparison false
NonFinite == [n |-> 0, d |-> 0, k |-> 0]
IsFinite(a) == a.d > 0

Neg(a) == [a EXCEPT !.n = -a.n]
Abs(a) == [a EXCEPT !.n = AbsInt(a.n)]

Add(a, b) ==
    IF ~IsFinite(a) \/ ~IsFinite(b) THEN NonFinite
    ELSE IF a.n = 0 THEN b
    ELSE IF b.n = 0 THEN a
    ELSE LET K == IF a.k > b.k THEN a.k ELSE b.k
         IN  Norm(a.n * b.d * Pow(K - a.k) + b.n * a.d * Pow(K - b.k),
                  a.d * b.d, K)

Sub(a, b) == Add(a, Neg(b))

Mul(a, b) ==
    IF ~IsFinite(a) \/ ~IsFinite(b) THEN NonFinite
    ELSE Norm(a.n * b.n, a.d * b.d, a.k + b.k)

Div(a, b) ==
    IF ~IsFinite(a) \/ ~IsFinite(b) \/ b.n = 0 THEN NonFinite
    ELSE IF a.n = 0 THEN a
    ELSE LET s == IF b.n < 0 THEN -1 ELSE 1
             e == a.k - b.k
         IN  IF e >= 0
             THEN Norm(s * a.n * b.d, a.d * AbsInt(b.n), e)
             ELSE Norm(s * a.n * b.d * Pow(-e), a.d * AbsInt(b.n), 0)

\* a < b, decided exactly: with e = b.k - a.k the test is
\* A * EpsRoot^e < B, rewritten so that EpsRoot^e is never formed
Less(a, b) ==
    /\ IsFinite(a)
    /\ IsFinite(b)
    /\ LET A == a.n * b.d
           B == b.n * a.d
           e == b.k - a.k
       IN  IF e >= 0
           THEN A <= FloorDivPow(B - 1, e)
           ELSE FloorDivPow(A, -e) < B

Greater(a, b) == Less(b, a)
LessEq(a, b) == IsFinite(a) /\ IsFinite(b) /\ ~Less(b, a)
Eq(a, b) == IsFinite(a) /\ IsFinite(b) /\ ~Less(a, b) /\ ~Less(b, a)

Min(a, b) == IF Less(b, a) THEN b ELSE a
Max(a, b) == IF Less(a, b) THEN b ELSE a

-----------------------------------------------------------------------------
(* Square roots: std::sqrt(q) is carried as the record [sq |-> q] *)

Sqrt(q) == [sq |-> q]

\* std::abs(num) / std::sqrt(den)
AbsOverSqrt(num, den) == [sq |-> Div(Mul(num, num), den)]

RootLess(a, b) == Less(a.sq, b.sq)

\* the larger of two roots
RootMin_larger(a, b) == IF RootLess(a, b) THEN b ELSE a

\* std::min on two roots
RootMin(a, b) == IF RootLess(b, a) THEN b ELSE a

\* std::atan2(y, x): the angle of the direction (x, y), carried as that
\* direction scaled to |x| + |y| = 1, so that two calls return the same angle
\* exactly when their directions agree; atan2(0, 0) is 0, the angle of (1, 0)
atan2(y, x) ==
    LET s == Add(Abs(x), Abs(y))
    IN  IF Eq(s, Zero)
        THEN [dy |-> Zero, dx |-> One]
        ELSE [dy |-> Div(y, s), dx |-> Div(x, s)]

-----------------------------------------------------------------------------
(* Generic *)

\* Generic::guard without the upper limit
guard_noUpper(x, min, max) == IF Less(x, min) THEN min ELSE x

\* Generic::guard without the lower limit
guard_noLower(x, min, max) == IF Greater(x, max) THEN max ELSE x

\* Generic::guard(x, min, max)
guard(x, min, max) ==
    IF Less(x, min) THEN min ELSE IF Greater(x, max) THEN max ELSE x

-----------------------------------------------------------------------------
(* Angles with an exact sine and cosine: the record [q, j] is the angle      *)
(* q * pi/2 + j * alpha, where cos(alpha) = 3/5 and sin(alpha) = 4/5.        *)

Angle(q, j) == [q |-> q, j |-> j]

\* unary minus on an angle
NegAngle(a) == Angle(-a.q, -a.j)

cosQuarter(q) == CASE q % 4 = 0 -> Whole(1) [] q % 4 = 2 -> Whole(-1) [] OTHER -> Zero
sinQuarter(q) == CASE q % 4 = 1 -> Whole(1) [] q % 4 = 3 -> Whole(-1) [] OTHER -> Zero
cosAlpha(j) == IF j = 0 THEN One ELSE Div(Whole(3), Whole(5))
sinAlpha(j) == Div(Whole(4 * j), Whole(5))

\* std::cos and std::sin
cos(a) == Sub(Mul(cosQuarter(a.q), cosAlpha(a.j)), Mul(sinQuarter(a.q), sinAlpha(a.j)))
sin(a) == Add(Mul(sinQuarter(a.q), cosAlpha(a.j)), Mul(cosQuarter(a.q), sinAlpha(a.j)))

-----------------------------------------------------------------------------
(* Vector2 *)

Vector2(x, y) == [x |-> x, y |-> y]

\* Vector2::rotate(T angle): the second assignment reads the x just written
Vector2_rotate(v, angle) ==
    LET x1 == Sub(Mul(v.x, cos(angle)), Mul(v.y, sin(angle)))
        y1 == Add(Mul(x1, sin(angle)), Mul(v.y, cos(angle)))
    IN  Vector2(x1, y1)

\* Vector2::rotate(Vector2 o, T angle)
Vector2_rotateAbout(v, o, angle) ==
    LET p == Vector2_rotate(Vector2(Sub(v.x, o.x), Sub(v.y, o.y)), angle)
    IN  Vector2(Add(p.x, o.x), Add(p.y, o.y))

\* Vector2::rotate(T rot_x, T rot_y, T angle)
Vector2_rotateXY(v, rot_x, rot_y, angle) ==
    Vector2_rotateAbout(v, Vector2(rot_x, rot_y), angle)

Vector2_sqrMagnitude(v) == Add(Mul(v.x, v.x), Mul(v.y, v.y))

Vector2_magnitude(v) == Sqrt(Vector2_sqrMagnitude(v))

Vector2_getDot(a, b) == Add(Mul(a.x, b.x), Mul(a.y, b.y))

Vector2_getCross(a, b) == Sub(Mul(a.x, b.y), Mul(a.y, b.x))

\* Vector2::getDistance: v = b - a, then v.magnitude()
Vector2_getDistance(a, b) ==
    Vector2_magnitude(Vector2(Sub(b.x, a.x), Sub(b.y, a.y)))

\* Vector2::lerp
Vector2_lerp(a, b, tt) ==
    LET c == guard(tt, Zero, One)
    IN  Vector2(Add(a.x, Mul(Sub(b.x, a.x), c)),
                Add(a.y, Mul(Sub(b.y, a.y), c)))

-----------------------------------------------------------------------------
(* Pose2D *)

Pose2D(x, y, theta) == [x |-> x, y |-> y, theta |-> theta]

\* Pose2D::operator+(const Pose2D&)
PoseAdd(a, b) == Pose2D(Add(a.x, b.x), Add(a.y, b.y), Add(a.theta, b.theta))

\* Pose2D::operator-(const Pose2D&)
PoseSub(a, b) == Pose2D(Sub(a.x, b.x), Sub(a.y, b.y), Sub(a.theta, b.theta))

\* Pose2D::operator*(T)
PoseMul(a, s) == Pose2D(Mul(a.x, s), Mul(a.y, s), Mul(a.theta, s))

\* Pose2D::operator/(T)
PoseDiv(a, s) == Pose2D(Div(a.x, s), Div(a.y, s), Div(a.theta, s))

\* Pose2D::rotate(T angle): both components are copied before either is written
Pose2D_rotate(p, angle) ==
    LET tmp_x == p.x
        tmp_y == p.y
    IN  Pose2D(Sub(Mul(tmp_x, cos(angle)), Mul(tmp_y, sin(angle))),
               Add(Mul(tmp_x, sin(angle)), Mul(tmp_y, cos(angle))),
               p.theta)

\* Pose2D::rotate(Vector2 o, T angle): rotates a Vector2 copy of the position
Pose2D_rotateAbout(p, o, angle) ==
    LET q == Vector2_rotate(Vector2(Sub(p.x, o.x), Sub(p.y, o.y)), angle)
    IN  Pose2D(Add(q.x, o.x), Add(q.y, o.y), p.theta)

\* Pose2D::rotate(T rot_x, T rot_y, T angle)
Pose2D_rotateXY(p, rot_x, rot_y, angle) ==
    Pose2D_rotateAbout(p, Vector2(rot_x, rot_y), angle)

Pose2D_sqrMagnitude(a) == Add(Mul(a.x, a.x), Mul(a.y, a.y))

Pose2D_magnitude(a) == Sqrt(Pose2D_sqrMagnitude(a))

Pose2D_getDot(a, b) == Add(Mul(a.x, b.x), Mul(a.y, b.y))

\* Pose2D::getCross with the minus sign lost
Pose2D_getCross_plus(a, b) == Add(Mul(a.x, b.y), Mul(a.y, b.x))

Pose2D_getCross(a, b) == Sub(Mul(a.x, b.y), Mul(a.y, b.x))

Pose2D_getDistance(a, b) == Pose2D_magnitude(PoseSub(b, a))

\* Pose2D::getAngle that reads theta for x
Pose2D_getAngle_withTheta(a, b) == atan2(Sub(b.y, a.y), Sub(b.theta, a.theta))

Pose2D_getAngle(a, b) == atan2(Sub(b.y, a.y), Sub(b.x, a.x))

\* Pose2D::lerp that leaves theta at a's value
Pose2D_lerp_noTheta(a, b, tt) ==
    LET c == guard(tt, Zero, One)
    IN  Pose2D(Add(a.x, Mul(Sub(b.x, a.x), c)),
               Add(a.y, Mul(Sub(b.y, a.y), c)),
               a.theta)

\* Pose2D::lerp
Pose2D_lerp(a, b, tt) ==
    LET c == guard(tt, Zero, One)
    IN  Pose2D(Add(a.x, Mul(Sub(b.x, a.x), c)),
               Add(a.y, Mul(Sub(b.y, a.y), c)),
               Add(a.theta, Mul(Sub(b.theta, a.theta), c)))

\* Pose2D::getMidpoint
Pose2D_getMidpoint(a, b) == Pose2D_lerp(a, b, Div(One, Whole(2)))

\* Pose2D::operator==: theta is compared with the other operand's y
Pose2D_eq(a, v) == Eq(a.x, v.x) /\ Eq(a.y, v.y) /\ Eq(a.theta, v.y)

\* Pose2D::operator!=
Pose2D_neq(a, v) == ~(Eq(a.x, v.x) /\ Eq(a.y, v.y) /\ Eq(a.theta, v.y))

-----------------------------------------------------------------------------
(* Line2D *)

Line2D(start, end) == [start |-> start, end |-> end]

\* constexpr static T eps = 1e-10
eps == [n |-> 1, d |-> 1, k |-> 2]

\* isPointOnLine with the tolerance included (<= for <)
isPointOnLine_inclusive(line, p) ==
    ~Greater(Abs(Pose2D_getCross(PoseSub(line.end, line.start),
                                 PoseSub(p, line.start))), eps)

isPointOnLine(line, p) ==
    Less(Abs(Pose2D_getCross(PoseSub(line.end, line.start),
                             PoseSub(p, line.start))), eps)

\* isPointOnLineWithinRange with the collapsed-axis test made strict (>= for >)
isPointOnLineWithinRange_strict(line, p) ==
    IF isPointOnLine(line, p)
    THEN LET x_min == Min(line.start.x, line.end.x)
             x_max == Max(line.start.x, line.end.x)
             y_min == Min(line.start.y, line.end.y)
             y_max == Max(line.start.y, line.end.y)
             x_ok == IF Less(Abs(Sub(x_max, x_min)), eps)
                     THEN Less(Abs(Sub(x_max, p.x)), eps)
                     ELSE Less(x_min, p.x) /\ Less(p.x, x_max)
             y_ok == IF Less(Abs(Sub(y_max, y_min)), eps)
                     THEN Less(Abs(Sub(y_max, p.y)), eps)
                     ELSE Less(y_min, p.y) /\ Less(p.y, y_max)
         IN  x_ok /\ y_ok
    ELSE FALSE

isPointOnLineWithinRange(line, p) ==
    IF isPointOnLine(line, p)
    THEN LET x_min == Min(line.start.x, line.end.x)
             x_max == Max(line.start.x, line.end.x)
             y_min == Min(line.start.y, line.end.y)
             y_max == Max(line.start.y, line.end.y)
             x_ok == IF Less(Abs(Sub(x_max, x_min)), eps)
                     THEN ~Greater(Abs(Sub(x_max, p.x)), eps)
                     ELSE Less(x_min, p.x) /\ Less(p.x, x_max)
             y_ok == IF Less(Abs(Sub(y_max, y_min)), eps)
                     THEN ~Greater(Abs(Sub(y_max, p.y)), eps)
                     ELSE Less(y_min, p.y) /\ Less(p.y, y_max)
         IN  x_ok /\ y_ok
    ELSE FALSE

\* isCrossing with the comparison made inclusive (>= for >)
isCrossing_inclusive(l1, l2) ==
    ~Less(Abs(Pose2D_getCross(PoseSub(l1.end, l1.start),
                              PoseSub(l2.end, l2.start))), eps)

\* Line2D::set(x1, y1, theta1, x2, y2, theta2)
Line2D_set6(line, x1, y1, theta1, x2, y2, theta2) ==
    [start |-> [x |-> x1, y |-> y1, theta |-> theta1],
     end |-> [x |-> x2, y |-> y2, theta |-> theta2]]

\* Line2D::set(x1, y1, x2, y2) that also puts both thetas back to 0
Line2D_set4_resetTheta(line, x1, y1, x2, y2) ==
    [start |-> [x |-> x1, y |-> y1, theta |-> Zero],
     end |-> [x |-> x2, y |-> y2, theta |-> Zero]]

\* Line2D::set(x1, y1, x2, y2): theta of both endpoints is not written
Line2D_set4(line, x1, y1, x2, y2) ==
    [start |-> [line.start EXCEPT !.x = x1, !.y = y1],
     end |-> [line.end EXCEPT !.x = x2, !.y = y2]]

\* Line2D::set(Pose2D, Pose2D)
Line2D_setPose(line, _start, _end) == [start |-> _start, end |-> _end]

\* Line2D::set(Vector2, Vector2): theta of both endpoints is not written
Line2D_setVec(line, _start, _end) ==
    [start |-> [line.start EXCEPT !.x = _start.x, !.y = _start.y],
     end |-> [line.end EXCEPT !.x = _end.x, !.y = _end.y]]

\* Line2D::getLength
Line2D_getLength(line) == Pose2D_getDistance(line.start, line.end)

\* Line2D::getAngle
Line2D_getAngle(line) == Pose2D_getAngle(line.start, line.end)

\* the crossing test with the comparison turned round
isCrossing_inverted(l1, l2) ==
    Less(Abs(Pose2D_getCross(PoseSub(l1.end, l1.start),
                             PoseSub(l2.end, l2.start))), eps)

\* the test that decides whether two lines cross
isCrossing(l1, l2) ==
    Greater(Abs(Pose2D_getCross(PoseSub(l1.end, l1.start),
                                PoseSub(l2.end, l2.start))), eps)

\* getIntersection with the operands of the divisor's cross product swapped
getIntersection_swapped(l1, l2) ==
    IF isCrossing(l1, l2)
    THEN LET a == PoseSub(l1.end, l1.start)
             b == PoseSub(l2.end, l2.start)
             intersection ==
                 PoseAdd(l1.start,
                         PoseDiv(PoseMul(a, Pose2D_getCross(b, PoseSub(l2.start, l1.start))),
                                 Pose2D_getCross(a, b)))
         IN  [ok |-> TRUE, point |-> intersection]
    ELSE [ok |-> FALSE, point |-> Pose2D(Zero, Zero, Zero)]

\* getIntersection whose point carries the default orientation
getIntersection_defaultTheta(l1, l2) ==
    IF isCrossing(l1, l2)
    THEN LET a == PoseSub(l1.end, l1.start)
             b == PoseSub(l2.end, l2.start)
             intersection ==
                 PoseAdd(l1.start,
                         PoseDiv(PoseMul(a, Pose2D_getCross(b, PoseSub(l2.start, l1.start))),
                                 Pose2D_getCross(b, a)))
         IN  [ok |-> TRUE, point |-> [intersection EXCEPT !.theta = Zero]]
    ELSE [ok |-> FALSE, point |-> Pose2D(Zero, Zero, Zero)]

getIntersection(l1, l2) ==
    IF isCrossing(l1, l2)
    THEN LET a == PoseSub(l1.end, l1.start)
             b == PoseSub(l2.end, l2.start)
             intersection ==
                 PoseAdd(l1.start,
                         PoseDiv(PoseMul(a, Pose2D_getCross(b, PoseSub(l2.start, l1.start))),
                                 Pose2D_getCross(b, a)))
         IN  [ok |-> TRUE, point |-> intersection]
    ELSE [ok |-> FALSE, point |-> Pose2D(Zero, Zero, Zero)]

\* getIntersectionWithinRange that tests the point against line1 only
getIntersectionWithinRange_oneSided(l1, l2) ==
    LET r == getIntersection(l1, l2)
    IN  IF r.ok
        THEN [ok |-> isPointOnLineWithinRange(l1, r.point), point |-> r.point]
        ELSE [ok |-> FALSE, point |-> r.point]

getIntersectionWithinRange(l1, l2) ==
    LET r == getIntersection(l1, l2)
    IN  IF r.ok
        THEN [ok |-> isPointOnLineWithinRange(l1, r.point)
                     /\ isPointOnLineWithinRange(l2, r.point),
              point |-> r.point]
        ELSE [ok |-> FALSE, point |-> r.point]

\* implicitForm with the sign of the intercept term start.y flipped
implicitForm_intercept(line) ==
    IF Greater(Abs(Sub(line.start.x, line.end.x)), eps)
    THEN LET slope == Div(Sub(line.end.y, line.start.y),
                          Sub(line.end.x, line.start.x))
         IN  [a |-> slope,
              b |-> Whole(-1),
              c |-> Sub(Mul(Div(Neg(Sub(line.end.y, line.start.y)),
                                Sub(line.end.x, line.start.x)),
                            line.start.x),
                        line.start.y)]
    ELSE [a |-> One, b |-> Zero, c |-> Neg(line.start.x)]

\* implicitForm without the branch for vertical lines
implicitForm_noVertical(line) ==
    LET slope == Div(Sub(line.end.y, line.start.y),
                     Sub(line.end.x, line.start.x))
    IN  [a |-> slope,
         b |-> Whole(-1),
         c |-> Add(Mul(Div(Neg(Sub(line.end.y, line.start.y)),
                           Sub(line.end.x, line.start.x)),
                       line.start.x),
                   line.start.y)]

\* the coefficients of a*x + b*y + c = 0 that both distance functions build
implicitForm(line) ==
    IF Greater(Abs(Sub(line.start.x, line.end.x)), eps)
    THEN LET slope == Div(Sub(line.end.y, line.start.y),
                          Sub(line.end.x, line.start.x))
         IN  [a |-> slope,
              b |-> Whole(-1),
              c |-> Add(Mul(Div(Neg(Sub(line.end.y, line.start.y)),
                                Sub(line.end.x, line.start.x)),
                            line.start.x),
                        line.start.y)]
    ELSE [a |-> One, b |-> Zero, c |-> Neg(line.start.x)]

\* std::abs(a*x + b*y + c) / std::sqrt(a*a + b*b)
perpendicular(f, p) ==
    AbsOverSqrt(Add(Add(Mul(f.a, p.x), Mul(f.b, p.y)), f.c),
                Add(Mul(f.a, f.a), Mul(f.b, f.b)))

getDistanceFromPointToLine(p, line) == perpendicular(implicitForm(line), p)

\* the foot h of the perpendicular from p
foot(f, p) ==
    LET n2 == Add(Mul(f.a, f.a), Mul(f.b, f.b))
        v  == Add(Add(Mul(f.a, p.x), Mul(f.b, p.y)), f.c)
    IN  Pose2D(Div(Sub(Mul(p.x, n2), Mul(f.a, v)), n2),
               Div(Sub(Mul(p.y, n2), Mul(f.b, v)), n2),
               Zero)

\* getDistanceFromPointToLineWithinRange without the endpoint fallback
getDistanceFromPointToLineWithinRange_noFallback(p, line) ==
    perpendicular(implicitForm(line), p)

getDistanceFromPointToLineWithinRange(p, line) ==
    LET f == implicitForm(line)
        h == foot(f, p)
    IN  IF isPointOnLineWithinRange(line, h)
        THEN perpendicular(f, p)
        ELSE RootMin(Pose2D_getDistance(p, line.start),
                     Pose2D_getDistance(p, line.end))

-----------------------------------------------------------------------------
(* Inputs *)

\* the units coordinates are counted in: 1, 1e-5 and 1e-10 (= eps)
Scales == 0 .. 2

Coords == -1 .. MaxCoord

Point(x, y, k) == Pose2D(Num(x, k), Num(y, k), Zero)

Segment(x1, y1, x2, y2, k) == Line2D(Point(x1, y1, k), Point(x2, y2, k))

GridPoints(k) == {Point(x, y, k) : x \in Coords, y \in Coords}

GridLines(k) == {Line2D(s, e) : s \in GridPoints(k), e \in GridPoints(k)}

\* the segments and points of the documented test cases
ExampleLines ==
    { Segment(0, 0, 4, 4, 0), Segment(0, 4, 4, 0, 0),
      Segment(0, 0, 4, 0, 0), Segment(0, 1, 4, 1, 0),
      Segment(0, 0, 2, 0, 0), Segment(5, 0, 7, 0, 0),
      Segment(1, 0, 1, 5, 0), Segment(3, 0, 3, 5, 0) }

ExamplePoints == {Point(1, 1, 0), Point(1, 10, 0), Point(7, 2, 0)}

Lines(k) == GridLines(k) \cup (IF k = 0 THEN ExampleLines ELSE {})

Points(k) == GridPoints(k) \cup (IF k = 0 THEN ExamplePoints ELSE {})

Origin == Pose2D(Zero, Zero, Zero)

\* Line2D() = default: both endpoints are default poses
DefaultLine == Line2D(Origin, Origin)

NoCall == [name |-> "none"]

\* no scalar utility has been called and no PID object exists
NoControl ==
    /\ args = NoCall
    /\ pid = NoCall
    /\ trace = <<>>
    /\ limited = FALSE

-----------------------------------------------------------------------------
(* The intersection queries on a pair of lines *)

InitInt ==
    /\ \E k \in Scales : line1 \in Lines(k) /\ line2 \in Lines(k)
    /\ pt = Origin
    /\ op = "none"
    /\ ret = FALSE
    /\ out = <<>>
    /\ vec = [x |-> Zero, y |-> Zero]
    /\ pose = Origin
    /\ last = NoCall
    /\ prev = NoCall
    /\ calls = 0
    /\ lhs = Origin
    /\ rhs = Origin
    /\ tparam = Zero
    /\ NoControl

GetIntersection ==
    /\ op' = "getIntersection"
    /\ ret' = getIntersection(line1, line2)
    /\ UNCHANGED <<line1, line2, pt, out>>
    /\ UNCHANGED <<mutatorVars, operandVars, controlVars>>

GetIntersectionWithinRange ==
    /\ op' = "getIntersectionWithinRange"
    /\ ret' = getIntersectionWithinRange(line1, line2)
    /\ UNCHANGED <<line1, line2, pt, out>>
    /\ UNCHANGED <<mutatorVars, operandVars, controlVars>>

NextInt == GetIntersection \/ GetIntersectionWithinRange

SpecInt == InitInt /\ [][NextInt]_vars

-----------------------------------------------------------------------------
(* The point queries on one line *)

InitPt ==
    /\ \E k \in Scales : line1 \in Lines(k) /\ pt \in Points(k)
    /\ line2 = DefaultLine
    /\ op = "none"
    /\ ret = FALSE
    /\ out = <<>>
    /\ vec = [x |-> Zero, y |-> Zero]
    /\ pose = Origin
    /\ last = NoCall
    /\ prev = NoCall
    /\ calls = 0
    /\ lhs = Origin
    /\ rhs = Origin
    /\ tparam = Zero
    /\ NoControl

IsPointOnLine ==
    /\ op' = "isPointOnLine"
    /\ ret' = isPointOnLine(line1, pt)
    /\ UNCHANGED <<line1, line2, pt, out>>
    /\ UNCHANGED <<mutatorVars, operandVars, controlVars>>

IsPointOnLineWithinRange ==
    /\ op' = "isPointOnLineWithinRange"
    /\ ret' = isPointOnLineWithinRange(line1, pt)
    /\ UNCHANGED <<line1, line2, pt, out>>
    /\ UNCHANGED <<mutatorVars, operandVars, controlVars>>

\* the function writes its coefficients to std::cout before it returns
GetDistanceFromPointToLine ==
    /\ Len(out) < MaxOut
    /\ op' = "getDistanceFromPointToLine"
    /\ ret' = getDistanceFromPointToLine(pt, line1)
    /\ out' = Append(out, implicitForm(line1))
    /\ UNCHANGED <<line1, line2, pt>>
    /\ UNCHANGED <<mutatorVars, operandVars, controlVars>>

GetDistanceFromPointToLineWithinRange ==
    /\ op' = "getDistanceFromPointToLineWithinRange"
    /\ ret' = getDistanceFromPointToLineWithinRange(pt, line1)
    /\ UNCHANGED <<line1, line2, pt, out>>
    /\ UNCHANGED <<mutatorVars, operandVars, controlVars>>

NextPt ==
    \/ IsPointOnLine
    \/ IsPointOnLineWithinRange
    \/ GetDistanceFromPointToLine
    \/ GetDistanceFromPointToLineWithinRange

SpecPt == InitPt /\ [][NextPt]_vars

-----------------------------------------------------------------------------
(* Properties of the Line2D queries *)

dir1 == PoseSub(line1.end, line1.start)
dir2 == PoseSub(line2.end, line2.start)
crossOfDirs == Pose2D_getCross(dir1, dir2)

\* the parameter of the intersection along line1
paramOnLine1 ==
    Div(Pose2D_getCross(dir2, PoseSub(line2.start, line1.start)),
        Pose2D_getCross(dir2, dir1))

\* C1: when |getCross(a, b)| > eps, getIntersection returns (true, point)
\* with point = line1.start + a * (getCross(b, line2.start - line1.start) /
\* getCross(b, a)), and the point lies on both infinite lines: its cross
\* product against each line's direction from that line's start is zero.
C1_IntersectionPoint ==
    (op = "getIntersection" /\ Greater(Abs(crossOfDirs), eps)) =>
        /\ ret.ok
        /\ Eq(ret.point.x, Add(line1.start.x, Mul(dir1.x, paramOnLine1)))
        /\ Eq(ret.point.y, Add(line1.start.y, Mul(dir1.y, paramOnLine1)))
        /\ Eq(Pose2D_getCross(dir1, PoseSub(ret.point, line1.start)), Zero)
        /\ Eq(Pose2D_getCross(dir2, PoseSub(ret.point, line2.start)), Zero)

\* two crossing lines whose intersection is not a grid point
C1_Witness ==
    /\ op = "getIntersection"
    /\ Greater(Abs(crossOfDirs), eps)
    /\ ret.ok
    /\ ret.point.x.d > 1
    /\ ret.point.y.d > 1

\* C2: getIntersection returns (false, Pose2D(0, 0, 0)) whenever
\* |getCross(a, b)| <= eps, the value exactly eps included, and returns true
\* whenever the value is > eps.
C2_DegenerateFlag ==
    op = "getIntersection" =>
        /\ LessEq(Abs(crossOfDirs), eps) => ret = [ok |-> FALSE, point |-> Origin]
        /\ Greater(Abs(crossOfDirs), eps) => ret.ok

\* two lines that are not parallel and whose cross product is exactly eps
C2_Witness ==
    /\ op = "getIntersection"
    /\ Eq(Abs(crossOfDirs), eps)
    /\ ret = [ok |-> FALSE, point |-> Origin]

\* C3: getIntersectionWithinRange reports true iff getIntersection reports
\* true and the point is within range of BOTH segments; the point returned is
\* always the point of getIntersection; (0,0)-(4,4) and (0,4)-(4,0) give
\* (true, (2,2)).
C3_WithinRange ==
    op = "getIntersectionWithinRange" =>
        LET r == getIntersection(line1, line2)
        IN  /\ ret.ok <=> /\ r.ok
                          /\ isPointOnLineWithinRange(line1, r.point)
                          /\ isPointOnLineWithinRange(line2, r.point)
            /\ ret.point = r.point
            /\ (line1 = Segment(0, 0, 4, 4, 0) /\ line2 = Segment(0, 4, 4, 0, 0))
                   => ret = [ok |-> TRUE, point |-> Point(2, 2, 0)]

\* the documented pair of crossing segments
C3_Witness ==
    /\ op = "getIntersectionWithinRange"
    /\ line1 = Segment(0, 0, 4, 4, 0)
    /\ line2 = Segment(0, 4, 4, 0, 0)
    /\ ret.ok

\* the per-axis containment rule as stated: closed within eps on a collapsed
\* axis, strictly inside the interval otherwise
axisRule(s, e, c) ==
    LET lo == Min(s, e)
        hi == Max(s, e)
    IN  IF Less(Sub(hi, lo), eps)
        THEN LessEq(Abs(Sub(hi, c)), eps)
        ELSE Less(lo, c) /\ Less(c, hi)

\* C4: isPointOnLineWithinRange(p) is true iff isPointOnLine(p) holds and on
\* each axis: if the extent max - min is < eps then |max - p.coord| <= eps,
\* otherwise min < p.coord < max.
C4_WithinRangeRule ==
    op = "isPointOnLineWithinRange" =>
        (ret <=> /\ isPointOnLine(line1, pt)
                 /\ axisRule(line1.start.x, line1.end.x, pt.x)
                 /\ axisRule(line1.start.y, line1.end.y, pt.y))

\* a collapsed x axis with the point exactly eps away from it, accepted
C4_Witness ==
    /\ op = "isPointOnLineWithinRange"
    /\ Eq(line1.start.x, line1.end.x)
    /\ ~Eq(line1.start.y, line1.end.y)
    /\ Eq(Abs(Sub(line1.start.x, pt.x)), eps)
    /\ ret = TRUE

samePosition(a, b) == Eq(a.x, b.x) /\ Eq(a.y, b.y)

\* C5: for every Line2D with start != end, isPointOnLineWithinRange(start)
\* and isPointOnLineWithinRange(end) are true (segment endpoints are closed,
\* inclusive).
C5_EndpointsInclusive ==
    ( /\ op = "isPointOnLineWithinRange"
      /\ ~samePosition(line1.start, line1.end)
      /\ (samePosition(pt, line1.start) \/ samePosition(pt, line1.end)) )
        => ret = TRUE

\* the foot of the perpendicular from pt onto a*x + b*y + c = 0
footOfPt ==
    LET f == implicitForm(line1)
        v == Add(Add(Mul(f.a, pt.x), Mul(f.b, pt.y)), f.c)
        n2 == Add(Mul(f.a, f.a), Mul(f.b, f.b))
    IN  Pose2D(Sub(pt.x, Div(Mul(f.a, v), n2)),
               Sub(pt.y, Div(Mul(f.b, v), n2)), Zero)

\* C6: getDistanceFromPointToLineWithinRange returns the perpendicular
\* distance |a*p.x + b*p.y + c| / sqrt(a^2 + b^2) if the foot h of the
\* perpendicular is within the segment's range, and otherwise
\* min(distance(p, start), distance(p, end)); on segment (1,0)-(1,5) point
\* (1,1) gives 0 and point (1,10) gives 5.
C6_SegmentDistance ==
    op = "getDistanceFromPointToLineWithinRange" =>
        /\ Eq(ret.sq,
              IF isPointOnLineWithinRange(line1, footOfPt)
              THEN perpendicular(implicitForm(line1), pt).sq
              ELSE Min(Pose2D_sqrMagnitude(PoseSub(line1.start, pt)),
                       Pose2D_sqrMagnitude(PoseSub(line1.end, pt))))
        /\ (line1 = Segment(1, 0, 1, 5, 0) /\ pt = Point(1, 1, 0))
               => ret = Sqrt(Zero)
        /\ (line1 = Segment(1, 0, 1, 5, 0) /\ pt = Point(1, 10, 0))
               => ret = Sqrt(Whole(25))

\* the documented point beyond the far end of the vertical segment
C6_Witness ==
    /\ op = "getDistanceFromPointToLineWithinRange"
    /\ line1 = Segment(1, 0, 1, 5, 0)
    /\ pt = Point(1, 10, 0)
    /\ ~isPointOnLineWithinRange(line1, footOfPt)
    /\ ret = Sqrt(Whole(25))

\* result^2 * |end - start|^2 = getCross(end - start, p - start)^2
isPerpendicularDistance ==
    LET c == Pose2D_getCross(dir1, PoseSub(pt, line1.start))
    IN  Eq(Mul(ret.sq, Pose2D_sqrMagnitude(dir1)), Mul(c, c))

\* the result is |p.x - start.x|
isHorizontalOffset ==
    LET dx == Sub(pt.x, line1.start.x)
    IN  Eq(ret.sq, Mul(dx, dx))

\* C7 as stated: for every line with start != end the result is the
\* perpendicular distance to the infinite line through start and end, and
\* when |start.x - end.x| <= eps the result is |p.x - start.x|.
C7_Original ==
    (op = "getDistanceFromPointToLine" /\ ~samePosition(line1.start, line1.end)) =>
        /\ isPerpendicularDistance
        /\ LessEq(Abs(Sub(line1.start.x, line1.end.x)), eps) => isHorizontalOffset

\* C7 (amended): for every line with |start.x - end.x| > eps, or with
\* start.x = end.x and start.y != end.y, the result is the perpendicular
\* distance to the infinite line through start and end; whenever
\* |start.x - end.x| <= eps the vertical branch is used and the result is
\* |p.x - start.x|; line (3,0)-(3,5) and point (7,2) give 4.
C7_Amended ==
    op = "getDistanceFromPointToLine" =>
        /\ ( \/ Greater(Abs(Sub(line1.start.x, line1.end.x)), eps)
             \/ /\ Eq(line1.start.x, line1.end.x)
                /\ ~Eq(line1.start.y, line1.end.y) )
               => isPerpendicularDistance
        /\ LessEq(Abs(Sub(line1.start.x, line1.end.x)), eps) => isHorizontalOffset
        /\ (line1 = Segment(3, 0, 3, 5, 0) /\ pt = Point(7, 2, 0))
               => ret = Sqrt(Whole(16))

\* a sloped line and a point off it, measured by the non-vertical branch
C7_Witness ==
    /\ op = "getDistanceFromPointToLine"
    /\ Greater(Abs(Sub(line1.start.x, line1.end.x)), eps)
    /\ ~Eq(line1.start.y, line1.end.y)
    /\ Greater(ret.sq, Zero)
    /\ isPerpendicularDistance

\* the cross product of the two directions, from the coordinates alone
crossOfDirections ==
    Sub(Mul(Sub(line1.end.x, line1.start.x), Sub(line2.end.y, line2.start.y)),
        Mul(Sub(line1.end.y, line1.start.y), Sub(line2.end.x, line2.start.x)))

\* C18: for every parallel or collinear pair of segments, overlapping or not,
\* getIntersection and getIntersectionWithinRange both report false.
C18_ParallelIsFalse ==
    (/\ op \in {"getIntersection", "getIntersectionWithinRange"}
     /\ Eq(crossOfDirections, Zero))
        => ret.ok = FALSE

\* the documented pair (0,0)-(2,0) and (5,0)-(7,0)
C18_Witness ==
    /\ op = "getIntersectionWithinRange"
    /\ line1 = Segment(0, 0, 2, 0, 0)
    /\ line2 = Segment(5, 0, 7, 0, 0)
    /\ ret.ok = FALSE

sqrDistance(px, py, qx, qy) ==
    Add(Mul(Sub(px, qx), Sub(px, qx)), Mul(Sub(py, qy), Sub(py, qy)))

\* the square of the Euclidean distance from pt to the closed segment line1
\* (start /= end): pt is projected on the line and the projection is taken
\* back to the nearer endpoint when it falls outside the segment
sqrDistanceToSegment ==
    LET sx == line1.start.x
        sy == line1.start.y
        dx == Sub(line1.end.x, sx)
        dy == Sub(line1.end.y, sy)
        along == Div(Add(Mul(Sub(pt.x, sx), dx), Mul(Sub(pt.y, sy), dy)),
                     Add(Mul(dx, dx), Mul(dy, dy)))
        u == IF Less(along, Zero) THEN Zero
             ELSE IF Less(One, along) THEN One ELSE along
    IN  sqrDistance(pt.x, pt.y, Add(sx, Mul(dx, u)), Add(sy, Mul(dy, u)))

hasLength(line) == ~(Eq(line.start.x, line.end.x) /\ Eq(line.start.y, line.end.y))

takenForVertical(line) ==
    /\ ~Eq(line.start.x, line.end.x)
    /\ LessEq(Abs(Sub(line.start.x, line.end.x)), eps)

-----------------------------------------------------------------------------
(* The rotate mutators of Vector2 and Pose2D *)

Angles ==
    {Angle(q, 0) : q \in -MaxQuarter .. MaxQuarter} \cup {Angle(0, 1), Angle(0, -1)}

Centres == {Vector2(Whole(x), Whole(y)) : x \in 0 .. MaxCentre, y \in 0 .. MaxCentre}

GridVectors == {Vector2(Whole(x), Whole(y)) : x \in Coords, y \in Coords}

Thetas == {Zero, One}

InitRot ==
    /\ vec \in GridVectors
    /\ \E t \in Thetas : pose = Pose2D(vec.x, vec.y, t)
    /\ last = NoCall
    /\ prev = NoCall
    /\ calls = 0
    /\ lhs = Origin
    /\ rhs = Origin
    /\ tparam = Zero
    /\ NoControl
    /\ line1 = DefaultLine
    /\ line2 = DefaultLine
    /\ pt = Origin
    /\ op = "none"
    /\ ret = FALSE
    /\ out = <<>>

Call(name, before, angle, centre) ==
    [name |-> name, before |-> before, angle |-> angle, centre |-> centre]

Record(call) ==
    /\ calls < MaxCalls
    /\ calls' = calls + 1
    /\ prev' = last
    /\ last' = call

VecRotate ==
    \E a \in Angles :
        /\ Record(Call("Vector2::rotate(angle)", vec, a, Vector2(Zero, Zero)))
        /\ vec' = Vector2_rotate(vec, a)
        /\ UNCHANGED pose
        /\ UNCHANGED <<queryVars, operandVars, controlVars>>

VecRotateAbout ==
    \E a \in Angles, o \in Centres :
        /\ Record(Call("Vector2::rotate(o, angle)", vec, a, o))
        /\ vec' = Vector2_rotateAbout(vec, o, a)
        /\ UNCHANGED pose
        /\ UNCHANGED <<queryVars, operandVars, controlVars>>

VecRotateXY ==
    \E a \in Angles, o \in Centres :
        /\ Record(Call("Vector2::rotate(rot_x, rot_y, angle)", vec, a, o))
        /\ vec' = Vector2_rotateXY(vec, o.x, o.y, a)
        /\ UNCHANGED pose
        /\ UNCHANGED <<queryVars, operandVars, controlVars>>

PoseRotate ==
    \E a \in Angles :
        /\ Record(Call("Pose2D::rotate(angle)", pose, a, Vector2(Zero, Zero)))
        /\ pose' = Pose2D_rotate(pose, a)
        /\ UNCHANGED vec
        /\ UNCHANGED <<queryVars, operandVars, controlVars>>

PoseRotateAbout ==
    \E a \in Angles, o \in Centres :
        /\ Record(Call("Pose2D::rotate(o, angle)", pose, a, o))
        /\ pose' = Pose2D_rotateAbout(pose, o, a)
        /\ UNCHANGED vec
        /\ UNCHANGED <<queryVars, operandVars, controlVars>>

PoseRotateXY ==
    \E a \in Angles, o \in Centres :
        /\ Record(Call("Pose2D::rotate(rot_x, rot_y, angle)", pose, a, o))
        /\ pose' = Pose2D_rotateXY(pose, o.x, o.y, a)
        /\ UNCHANGED vec
        /\ UNCHANGED <<queryVars, operandVars, controlVars>>

NextRot ==
    \/ VecRotate
    \/ VecRotateAbout
    \/ VecRotateXY
    \/ PoseRotate
    \/ PoseRotateAbout
    \/ PoseRotateXY

SpecRot == InitRot /\ [][NextRot]_vars

-----------------------------------------------------------------------------
(* Properties of the rotate mutators *)

\* the standard rotation of (x, y) about the centre o by the angle a
rotated(v, o, a) ==
    LET dx == Sub(v.x, o.x)
        dy == Sub(v.y, o.y)
    IN  Vector2(Add(o.x, Sub(Mul(dx, cos(a)), Mul(dy, sin(a)))),
                Add(o.y, Add(Mul(dx, sin(a)), Mul(dy, cos(a)))))

\* C8: Vector2::rotate(angle) replaces (x, y) by (x*cos - y*sin,
\* x*sin + y*cos), both x and y on the right being the values from before
\* the call.
C8_RotateSnapshots ==
    last.name = "Vector2::rotate(angle)" =>
        samePosition(vec, rotated(last.before, Vector2(Zero, Zero), last.angle))

\* C9: v.rotate(a) followed by v.rotate(-a) leaves the Vector2 v equal to its
\* value before the two calls.
C9_RoundTrip ==
    ( /\ last.name = "Vector2::rotate(angle)"
      /\ prev.name = "Vector2::rotate(angle)"
      /\ last.angle = NegAngle(prev.angle) )
        => samePosition(vec, prev.before)

CentreCallsOfVector2 ==
    {"Vector2::rotate(o, angle)", "Vector2::rotate(rot_x, rot_y, angle)"}

CentreCallsOfPose2D ==
    {"Pose2D::rotate(o, angle)", "Pose2D::rotate(rot_x, rot_y, angle)"}

\* C10: the centre-of-rotation overloads of Vector2 and Pose2D give
\* (x', y') = o + R(angle) * ((x, y) - o), a Pose2D's theta is unchanged, and
\* Pose2D::rotate about the centre (0, 0) gives the same (x, y) as
\* Pose2D::rotate(angle).
C10_CentreRotation ==
    /\ last.name \in CentreCallsOfVector2
           => samePosition(vec, rotated(last.before, last.centre, last.angle))
    /\ last.name \in CentreCallsOfPose2D
           => /\ samePosition(pose, rotated(last.before, last.centre, last.angle))
              /\ pose.theta = last.before.theta
              /\ last.centre = Vector2(Zero, Zero)
                     => samePosition(pose, Pose2D_rotate(last.before, last.angle))


-----------------------------------------------------------------------------
(* Pairwise operations of Pose2D and Vector2: equality, lerp, getMidpoint,
   getDot, getCross, getAngle, getDistance.  lhs and rhs are the operands,
   tparam is lerp's parameter; the Vector2 operations act on the positions of
   the operands. *)

MaxPoseCoord == 1

PoseCoords == 0 .. MaxPoseCoord

Poses == { Pose2D(Whole(x), Whole(y), Whole(th)) :
               x \in PoseCoords, y \in PoseCoords, th \in PoseCoords }

\* lerp parameters below, at the ends of, inside and above [0, 1]
Params == { Div(Whole(i), Whole(2)) : i \in -2 .. 4 }

Half == Div(One, Whole(2))

position(p) == Vector2(p.x, p.y)

InitPose ==
    /\ lhs \in Poses /\ rhs \in Poses /\ tparam \in Params
    /\ NoControl
    /\ line1 = DefaultLine /\ line2 = DefaultLine /\ pt = Origin
    /\ op = "none" /\ ret = FALSE /\ out = <<>>
    /\ vec = [x |-> Zero, y |-> Zero] /\ pose = Origin
    /\ last = NoCall /\ prev = NoCall /\ calls = 0

Returns(name, value) ==
    /\ op' = name
    /\ ret' = value
    /\ UNCHANGED <<line1, line2, pt, out>>
    /\ UNCHANGED <<mutatorVars, operandVars, controlVars>>

PoseEquals == Returns("Pose2D::operator==", Pose2D_eq(lhs, rhs))

PoseNotEquals == Returns("Pose2D::operator!=", Pose2D_neq(lhs, rhs))

\* Pose2D(p.x, p.y, p.theta) == p
PoseRebuilt ==
    Returns("Pose2D::rebuilt", Pose2D_eq(Pose2D(lhs.x, lhs.y, lhs.theta), lhs))

PoseLerp == Returns("Pose2D::lerp", Pose2D_lerp(lhs, rhs, tparam))

PoseGetMidpoint == Returns("Pose2D::getMidpoint", Pose2D_getMidpoint(lhs, rhs))

PoseGetDot == Returns("Pose2D::getDot", Pose2D_getDot(lhs, rhs))

PoseGetCross == Returns("Pose2D::getCross", Pose2D_getCross(lhs, rhs))

PoseGetAngle == Returns("Pose2D::getAngle", Pose2D_getAngle(lhs, rhs))

PoseGetDistance == Returns("Pose2D::getDistance", Pose2D_getDistance(lhs, rhs))

VecLerp ==
    Returns("Vector2::lerp", Vector2_lerp(position(lhs), position(rhs), tparam))

VecGetDot ==
    Returns("Vector2::getDot", Vector2_getDot(position(lhs), position(rhs)))

VecGetCross ==
    Returns("Vector2::getCross", Vector2_getCross(position(lhs), position(rhs)))

VecGetDistance ==
    Returns("Vector2::getDistance",
            Vector2_getDistance(position(lhs), position(rhs)))

NextPose ==
    \/ PoseEquals
    \/ PoseNotEquals
    \/ PoseRebuilt
    \/ PoseLerp
    \/ PoseGetMidpoint
    \/ PoseGetDot
    \/ PoseGetCross
    \/ PoseGetAngle
    \/ PoseGetDistance
    \/ VecLerp
    \/ VecGetDot
    \/ VecGetCross
    \/ VecGetDistance

SpecPose == InitPose /\ [][NextPose]_vars

fieldsEqual(a, b) == Eq(a.x, b.x) /\ Eq(a.y, b.y) /\ Eq(a.theta, b.theta)

\* C11: a == b is true exactly when x, y and theta are pairwise equal, and
\* a != b is true exactly when at least one of the three pairs differs.
C11_FieldwiseEquality ==
    /\ op = "Pose2D::operator==" => (ret <=> fieldsEqual(lhs, rhs))
    /\ op = "Pose2D::operator!=" => (ret <=> ~fieldsEqual(lhs, rhs))

\* C12: the pose rebuilt from p's own fields compares equal to p.
C12_RoundTrip == op = "Pose2D::rebuilt" => ret = TRUE

between(v, a, b) == LessEq(Min(a, b), v) /\ LessEq(v, Max(a, b))

\* C13: lerp clamps its parameter: for t <= 0 the result is a, for t >= 1 it
\* is b, and every coordinate of the result lies between those of a and b.
C13_LerpClamps ==
    /\ op = "Vector2::lerp" =>
          /\ LessEq(tparam, Zero) => ret = position(lhs)
          /\ LessEq(One, tparam) => ret = position(rhs)
          /\ between(ret.x, lhs.x, rhs.x) /\ between(ret.y, lhs.y, rhs.y)
    /\ op = "Pose2D::lerp" =>
          /\ LessEq(tparam, Zero) => ret = lhs
          /\ LessEq(One, tparam) => ret = rhs
          /\ between(ret.x, lhs.x, rhs.x) /\ between(ret.y, lhs.y, rhs.y)

C13_Witness ==
    /\ op \in {"Vector2::lerp", "Pose2D::lerp"}
    /\ Less(One, tparam)
    /\ ~Eq(lhs.x, rhs.x) /\ ~Eq(lhs.y, rhs.y)
    /\ ret.x = rhs.x /\ ret.y = rhs.y

clamped(tt) == IF Less(tt, Zero) THEN Zero ELSE IF Less(One, tt) THEN One ELSE tt

average(u, v) == Div(Add(u, v), Whole(2))

\* C14: Pose2D::lerp interpolates theta as a plain scalar by the same clamped
\* parameter as x and y, and getMidpoint is lerp at 1/2, the field-wise average.
C14_ThetaInterpolated ==
    /\ op = "Pose2D::lerp" =>
          Eq(ret.theta,
             Add(lhs.theta, Mul(Sub(rhs.theta, lhs.theta), clamped(tparam))))
    /\ op = "Pose2D::getMidpoint" =>
          /\ ret = Pose2D_lerp(lhs, rhs, Half)
          /\ Eq(ret.x, average(lhs.x, rhs.x))
          /\ Eq(ret.y, average(lhs.y, rhs.y))
          /\ Eq(ret.theta, average(lhs.theta, rhs.theta))

C14_Witness ==
    /\ op = "Pose2D::lerp"
    /\ tparam = Half
    /\ ~Eq(lhs.theta, rhs.theta)
    /\ Eq(ret.theta, Half)

\* C20: getCross is antisymmetric, getDot and getDistance are symmetric in
\* their operands, for Vector2 and for Pose2D.
C20_Symmetry ==
    /\ op = "Pose2D::getCross" => Eq(ret, Neg(Pose2D_getCross(rhs, lhs)))
    /\ op = "Pose2D::getDot" => Eq(ret, Pose2D_getDot(rhs, lhs))
    /\ op = "Pose2D::getDistance" => ret = Pose2D_getDistance(rhs, lhs)
    /\ op = "Vector2::getCross" =>
          Eq(ret, Neg(Vector2_getCross(position(rhs), position(lhs))))
    /\ op = "Vector2::getDot" =>
          Eq(ret, Vector2_getDot(position(rhs), position(lhs)))
    /\ op = "Vector2::getDistance" =>
          ret = Vector2_getDistance(position(rhs), position(lhs))

C20_Witness ==
    /\ op = "Pose2D::getCross"
    /\ Eq(ret, One)
    /\ Eq(Pose2D_getCross(rhs, lhs), Neg(One))


-----------------------------------------------------------------------------
(* Output streams *)

\* C16: no geometric query writes to the process's output streams; the only
\* effect of a query is its return value.
C16_NoOutput == out = <<>>


-----------------------------------------------------------------------------
(* The set overloads of Line2D, called in any order on one line.  last holds
   the name of the latest call and the thetas the line had before that call. *)

MaxSetCoord == 1

SetCoords == { Whole(i) : i \in 0 .. MaxSetCoord }

SetVectors == { Vector2(x, y) : x \in SetCoords, y \in SetCoords }

SetPoses == { Pose2D(x, y, th) : x \in SetCoords, y \in SetCoords, th \in Thetas }

InitSet ==
    /\ line1 = DefaultLine /\ line2 = DefaultLine /\ pt = Origin
    /\ op = "none" /\ ret = FALSE /\ out = <<>>
    /\ vec = [x |-> Zero, y |-> Zero] /\ pose = Origin
    /\ last = NoCall /\ prev = NoCall /\ calls = 0
    /\ lhs = Origin /\ rhs = Origin /\ tparam = Zero
    /\ NoControl

thetas(line) == [start |-> line.start.theta, end |-> line.end.theta]

Sets(name, line) ==
    /\ line1' = line
    /\ last' = [name |-> name, before |-> thetas(line1)]
    /\ UNCHANGED <<line2, pt, op, ret, out, vec, pose, prev, calls>>
    /\ UNCHANGED <<operandVars, controlVars>>

Set6 ==
    \E s \in SetPoses, e \in SetPoses :
        Sets("set(T,T,T,T,T,T)",
             Line2D_set6(line1, s.x, s.y, s.theta, e.x, e.y, e.theta))

Set4 ==
    \E s \in SetVectors, e \in SetVectors :
        Sets("set(T,T,T,T)", Line2D_set4(line1, s.x, s.y, e.x, e.y))

SetPose ==
    \E s \in SetPoses, e \in SetPoses :
        Sets("set(Pose2D,Pose2D)", Line2D_setPose(line1, s, e))

SetVec ==
    \E s \in SetVectors, e \in SetVectors :
        Sets("set(Vector2,Vector2)", Line2D_setVec(line1, s, e))

\* Line2D(x1, y1, x2, y2): a new line, its members default-initialised, then
\* set(x1, y1, x2, y2)
Construct4 ==
    \E s \in SetVectors, e \in SetVectors :
        /\ line1' = Line2D_set4(DefaultLine, s.x, s.y, e.x, e.y)
        /\ last' = [name |-> "Line2D(T,T,T,T)", before |-> thetas(DefaultLine)]
        /\ UNCHANGED <<line2, pt, op, ret, out, vec, pose, prev, calls>>
        /\ UNCHANGED <<operandVars, controlVars>>

NextSet == Set6 \/ Set4 \/ SetPose \/ SetVec \/ Construct4

SpecSet == InitSet /\ [][NextSet]_vars

\* C15: after set(Vector2, Vector2), on a line in any state, the theta of
\* start and of end is at its default 0.
C15_VectorSetResetsTheta ==
    last.name = "set(Vector2,Vector2)" =>
        Eq(line1.start.theta, Zero) /\ Eq(line1.end.theta, Zero)


\* C29: set(x1, y1, x2, y2) and the 4-scalar constructor write only x and y:
\* both thetas are what they were before the call (0 in a new line), whatever
\* set calls came earlier.
C29_ThetaKept ==
    last.name \in {"set(T,T,T,T)", "Line2D(T,T,T,T)"} =>
        thetas(line1) = last.before

\* a 4-scalar set on a line whose thetas an earlier call made non-zero
C29_Witness ==
    /\ last.name = "set(T,T,T,T)"
    /\ ~Eq(last.before.start, Zero) /\ ~Eq(last.before.end, Zero)
    /\ line1.start.x = One /\ line1.end.y = One
    /\ ~Eq(line1.start.theta, Zero) /\ ~Eq(line1.end.theta, Zero)

-----------------------------------------------------------------------------
(* Every geometric query on inputs that carry an orientation: two lines, or a
   line and a point, or two poses, whose thetas are not all zero. *)

MaxThetaCoord == 1

ThetaCoords == 0 .. MaxThetaCoord

\* coordinates in units of 1, of 1e-5, where a cross product can equal eps,
\* and of 1e-10, where a difference of coordinates can equal eps
ThetaScales == 0 .. 2

ThetaPoints(k) ==
    { Pose2D(Num(x, k), Num(y, k), th) :
          x \in ThetaCoords, y \in ThetaCoords, th \in Thetas }

\* points whose orientation is 2
OrientedPoints(k) ==
    { Pose2D(Num(x, k), Num(y, k), Whole(2)) :
          x \in ThetaCoords, y \in ThetaCoords }

ThetaLines(k) ==
    { Line2D(s, e) : s \in ThetaPoints(k), e \in OrientedPoints(k) }

\* second lines of every direction, each with an orientation at its ends
CrossingLines ==
    { Line2D(Pose2D(Zero, Zero, One), Pose2D(One, One, Whole(2))),
      Line2D(Pose2D(Zero, One, Whole(2)), Pose2D(One, Zero, Zero)),
      Line2D(Pose2D(Zero, Zero, Zero), Pose2D(One, Zero, One)),
      Line2D(Pose2D(One, Zero, Whole(2)), Pose2D(One, One, One)) }

InitTheta ==
    /\ \/ /\ line1 \in ThetaLines(0) /\ line2 \in CrossingLines
          /\ pt = Origin /\ lhs = Origin /\ rhs = Origin
       \/ /\ \E k \in ThetaScales : line1 \in ThetaLines(k) /\ pt \in OrientedPoints(k)
          /\ line2 = DefaultLine /\ lhs = Origin /\ rhs = Origin
       \/ /\ lhs \in ThetaPoints(0) /\ rhs \in ThetaPoints(0)
          /\ line1 = DefaultLine /\ line2 = DefaultLine /\ pt = Origin
    /\ tparam = Zero
    /\ NoControl
    /\ op = "none" /\ ret = FALSE /\ out = <<>>
    /\ vec = [x |-> Zero, y |-> Zero] /\ pose = Origin
    /\ last = NoCall /\ prev = NoCall /\ calls = 0

GetLength == Returns("getLength", Line2D_getLength(line1))

GetAngle == Returns("getAngle", Line2D_getAngle(line1))

NextTheta ==
    \/ GetLength
    \/ GetAngle
    \/ IsPointOnLine
    \/ IsPointOnLineWithinRange
    \/ GetDistanceFromPointToLine
    \/ GetDistanceFromPointToLineWithinRange
    \/ GetIntersection
    \/ GetIntersectionWithinRange
    \/ PoseGetDot
    \/ PoseGetCross
    \/ PoseGetAngle
    \/ PoseGetDistance

SpecTheta == InitTheta /\ [][NextTheta]_vars

\* the cross product of end - start and p - start, from the coordinates alone
crossOfPoint ==
    Sub(Mul(Sub(line1.end.x, line1.start.x), Sub(pt.y, line1.start.y)),
        Mul(Sub(line1.end.y, line1.start.y), Sub(pt.x, line1.start.x)))

hasOrientation(p) == ~Eq(p.theta, Zero)

\* C17: isPointOnLine(p) is true exactly when |getCross(end - start,
\* p - start)| < eps, strictly; no theta takes part.
C17_Collinearity ==
    op = "isPointOnLine" => (ret <=> Less(Abs(crossOfPoint), eps))

\* a point whose cross product is exactly eps, every theta being non-zero
C17_Witness ==
    /\ op = "isPointOnLine"
    /\ Eq(Abs(crossOfPoint), eps)
    /\ hasOrientation(line1.start) /\ hasOrientation(line1.end)
    /\ hasOrientation(pt)
    /\ ret = FALSE

flat(p) == Pose2D(p.x, p.y, Zero)

flatLine(line) == Line2D(flat(line.start), flat(line.end))

position2(r) == [ok |-> r.ok, x |-> r.point.x, y |-> r.point.y]

\* C19: the result of every geometric query is the one the same inputs give
\* with all their thetas set to zero (for the intersections: the boolean and
\* the x and y of the point).
C19_OrientationIgnored ==
    /\ op = "Pose2D::getDot" => ret = Pose2D_getDot(flat(lhs), flat(rhs))
    /\ op = "Pose2D::getCross" => ret = Pose2D_getCross(flat(lhs), flat(rhs))
    /\ op = "Pose2D::getAngle" => ret = Pose2D_getAngle(flat(lhs), flat(rhs))
    /\ op = "Pose2D::getDistance" =>
          ret = Pose2D_getDistance(flat(lhs), flat(rhs))
    /\ op = "getLength" => ret = Line2D_getLength(flatLine(line1))
    /\ op = "getAngle" => ret = Line2D_getAngle(flatLine(line1))
    /\ op = "isPointOnLine" => ret = isPointOnLine(flatLine(line1), flat(pt))
    /\ op = "isPointOnLineWithinRange" =>
          ret = isPointOnLineWithinRange(flatLine(line1), flat(pt))
    /\ op = "getDistanceFromPointToLine" =>
          ret = getDistanceFromPointToLine(flat(pt), flatLine(line1))
    /\ op = "getDistanceFromPointToLineWithinRange" =>
          ret = getDistanceFromPointToLineWithinRange(flat(pt), flatLine(line1))
    /\ op = "getIntersection" =>
          position2(ret) =
              position2(getIntersection(flatLine(line1), flatLine(line2)))
    /\ op = "getIntersectionWithinRange" =>
          position2(ret) =
              position2(getIntersectionWithinRange(flatLine(line1),
                                                   flatLine(line2)))

\* two crossing lines whose four thetas are all non-zero
C19_Witness ==
    /\ op = "getIntersection"
    /\ ret.ok
    /\ hasOrientation(line1.start) /\ hasOrientation(line1.end)
    /\ hasOrientation(line2.start) /\ hasOrientation(line2.end)
    /\ hasOrientation(ret.point)


\* k = getCross(b, line2.start - line1.start) / getCross(b, a), from the
\* coordinates alone, with a and b the directions of line1 and line2
paramOfCrossing ==
    LET ax == Sub(line1.end.x, line1.start.x)
        ay == Sub(line1.end.y, line1.start.y)
        bx == Sub(line2.end.x, line2.start.x)
        by == Sub(line2.end.y, line2.start.y)
        sx == Sub(line2.start.x, line1.start.x)
        sy == Sub(line2.start.y, line1.start.y)
    IN  Div(Sub(Mul(bx, sy), Mul(by, sx)), Sub(Mul(bx, ay), Mul(by, ax)))

\* C30: the theta of the point of a successful getIntersection is
\* line1.start.theta + (line1.end.theta - line1.start.theta) * k, and it is the
\* same whatever the thetas of line2.
C30_InterpolatedTheta ==
    (op = "getIntersection" /\ ret.ok) =>
        /\ Eq(ret.point.theta,
              Add(line1.start.theta,
                  Mul(Sub(line1.end.theta, line1.start.theta), paramOfCrossing)))
        /\ ret.point.theta = getIntersection(line1, flatLine(line2)).point.theta

\* a crossing where line2 has non-zero thetas and the point's theta is neither
\* 0 nor a theta of line1
C30_Witness ==
    /\ op = "getIntersection" /\ ret.ok
    /\ hasOrientation(line2.start) /\ hasOrientation(line2.end)
    /\ hasOrientation(ret.point)
    /\ ~Eq(ret.point.theta, line1.start.theta)
    /\ ~Eq(ret.point.theta, line1.end.theta)


sqrOffsetX == Mul(Sub(pt.x, line1.start.x), Sub(pt.x, line1.start.x))

sqrDistanceToStart == sqrDistance(pt.x, pt.y, line1.start.x, line1.start.y)

finiteResult ==
    CASE op \in {"getIntersection"} ->
             IsFinite(ret.point.x) /\ IsFinite(ret.point.y)
      [] op \in {"getDistanceFromPointToLine",
                 "getDistanceFromPointToLineWithinRange"} -> IsFinite(ret.sq)
      [] OTHER -> TRUE

\* C28 as stated: on a zero-length line getIntersection returns (false,
\* origin), isPointOnLine is true for every p, getDistanceFromPointToLine is
\* |p.x - start.x|, getDistanceFromPointToLineWithinRange is the distance from
\* p to start, and no result is non-finite.
C28_Original ==
    ~hasLength(line1) =>
        /\ op = "getIntersection" => ret = [ok |-> FALSE, point |-> Origin]
        /\ op = "isPointOnLine" => ret = TRUE
        /\ op = "getDistanceFromPointToLine" => Eq(ret.sq, sqrOffsetX)
        /\ op = "getDistanceFromPointToLineWithinRange" =>
              Eq(ret.sq, sqrDistanceToStart)
        /\ finiteResult

\* C28 (amended): as stated, except that getDistanceFromPointToLineWithinRange
\* is the distance from p to start only when |p.y - start.y| > eps; when
\* |p.y - start.y| <= eps it is |p.x - start.x|.
C28_Amended ==
    ~hasLength(line1) =>
        /\ op = "getIntersection" => ret = [ok |-> FALSE, point |-> Origin]
        /\ op = "isPointOnLine" => ret = TRUE
        /\ op = "getDistanceFromPointToLine" => Eq(ret.sq, sqrOffsetX)
        /\ op = "getDistanceFromPointToLineWithinRange" =>
              Eq(ret.sq,
                 IF Greater(Abs(Sub(pt.y, line1.start.y)), eps)
                 THEN sqrDistanceToStart
                 ELSE sqrOffsetX)
        /\ finiteResult

\* a point at eps above a zero-length line: the bounded distance is 0
C28_Witness ==
    /\ op = "getDistanceFromPointToLineWithinRange"
    /\ ~hasLength(line1)
    /\ Eq(pt.x, line1.start.x)
    /\ Eq(Abs(Sub(pt.y, line1.start.y)), eps)
    /\ ret = Sqrt(Zero)


-----------------------------------------------------------------------------
(* Generic::guard on every triple of small values, the limits in either
   order; "guard twice" feeds the result back with the same limits. *)

MaxGuard == 2

GuardValues == { Whole(i) : i \in -MaxGuard .. MaxGuard }

Unchanged ==
    /\ UNCHANGED <<line1, line2, pt, out>>
    /\ UNCHANGED <<mutatorVars, operandVars>>

InitGuard ==
    /\ \E x \in GuardValues, min \in GuardValues, max \in GuardValues :
           args = [x |-> x, min |-> min, max |-> max]
    /\ pid = NoCall /\ trace = <<>> /\ limited = FALSE
    /\ line1 = DefaultLine /\ line2 = DefaultLine /\ pt = Origin
    /\ op = "none" /\ ret = FALSE /\ out = <<>>
    /\ vec = [x |-> Zero, y |-> Zero] /\ pose = Origin
    /\ last = NoCall /\ prev = NoCall /\ calls = 0
    /\ lhs = Origin /\ rhs = Origin /\ tparam = Zero

Guard ==
    /\ op' = "guard"
    /\ ret' = guard(args.x, args.min, args.max)
    /\ Unchanged
    /\ UNCHANGED controlVars

GuardTwice ==
    /\ op' = "guard twice"
    /\ ret' = guard(guard(args.x, args.min, args.max), args.min, args.max)
    /\ Unchanged
    /\ UNCHANGED controlVars

NextGuard == Guard \/ GuardTwice

SpecGuard == InitGuard /\ [][NextGuard]_vars

\* C21: guard returns min if value < min, max if value > max and value
\* otherwise; for min <= max the result is in [min, max] and a second guard
\* with the same limits returns it unchanged.
C21_Clamp ==
    /\ op = "guard" =>
          /\ Less(args.x, args.min) => ret = args.min
          /\ (~Less(args.x, args.min) /\ Less(args.max, args.x)) => ret = args.max
          /\ (~Less(args.x, args.min) /\ ~Less(args.max, args.x)) => ret = args.x
          /\ LessEq(args.min, args.max) =>
                 LessEq(args.min, ret) /\ LessEq(ret, args.max)
    /\ (op = "guard twice" /\ LessEq(args.min, args.max)) =>
          ret = guard(args.x, args.min, args.max)

\* a value above the range, brought down to max and kept there
C21_Witness ==
    /\ op = "guard twice"
    /\ Less(args.min, args.max)
    /\ Less(args.max, args.x)
    /\ ret = args.max


-----------------------------------------------------------------------------
(* Angles.  An angle is counted in units of pi, so M_PI is One and 2.0 * M_PI
   is Whole(2).  The arithmetic is that of double: exact on the values used
   here, except that a sum loses a term that is below the unit roundoff of
   the other term. *)

\* below 2^-53, the relative distance from a double to the middle of the gap
\* to its neighbour
UnitRoundoff == [n |-> 1, d |-> 100, k |-> 3]

\* a is too small to change b when both are added in double
Absorbed(a, b) == a.n /= 0 /\ Less(Abs(a), Mul(Abs(b), UnitRoundoff))

\* double operator+
DoubleAdd(a, b) ==
    IF Absorbed(a, b) THEN b
    ELSE IF Absorbed(b, a) THEN a
    ELSE Add(a, b)

\* the integer part of the finite number q of scale 0, towards zero
Trunc(q) == (IF q.n < 0 THEN -1 ELSE 1) * (AbsInt(q.n) \div q.d)

\* fmod(x, y) for y > 0: x - y * trunc(x / y), exact, with the sign of x
fmod(x, y) ==
    IF Less(Abs(x), y) THEN x
    ELSE Sub(x, Mul(y, Whole(Trunc(Div(x, y)))))

\* Angles::normalizePositive
normalizePositive(angle) ==
    LET result == fmod(angle, Whole(2))
    IN  IF Less(result, Zero)
        THEN DoubleAdd(result, Whole(2))
        ELSE result

\* Angles::normalize with the two returns exchanged
normalize_exchanged(angle) ==
    LET result == fmod(DoubleAdd(angle, One), Whole(2))
    IN  IF LessEq(result, Zero)
        THEN DoubleAdd(result, Neg(One))
        ELSE DoubleAdd(result, One)

\* Angles::normalize
normalize(angle) ==
    LET result == fmod(DoubleAdd(angle, One), Whole(2))
    IN  IF LessEq(result, Zero)
        THEN DoubleAdd(result, One)
        ELSE DoubleAdd(result, Neg(One))

\* Angles::getShortestAngle
getShortestAngle(from, to) == normalize(DoubleAdd(to, Neg(from)))

\* angles are the multiples of pi/2 from -MaxHalfPi to MaxHalfPi ...
MaxHalfPi == 8

\* ... and 1e-20 pi on either side of 0
Tiny == [n |-> 1, d |-> 1, k |-> 4]

AngleInputs ==
    { Div(Whole(i), Whole(2)) : i \in -MaxHalfPi .. MaxHalfPi }
        \cup {Tiny, Neg(Tiny)}

InitAngle ==
    /\ \E a \in AngleInputs, b \in AngleInputs : args = [angle |-> a, to |-> b]
    /\ pid = NoCall /\ trace = <<>> /\ limited = FALSE
    /\ line1 = DefaultLine /\ line2 = DefaultLine /\ pt = Origin
    /\ op = "none" /\ ret = FALSE /\ out = <<>>
    /\ vec = [x |-> Zero, y |-> Zero] /\ pose = Origin
    /\ last = NoCall /\ prev = NoCall /\ calls = 0
    /\ lhs = Origin /\ rhs = Origin /\ tparam = Zero

Normalize ==
    /\ op' = "normalize"
    /\ ret' = normalize(args.angle)
    /\ Unchanged
    /\ UNCHANGED controlVars

NormalizePositive ==
    /\ op' = "normalizePositive"
    /\ ret' = normalizePositive(args.angle)
    /\ Unchanged
    /\ UNCHANGED controlVars

NormalizePositiveTwice ==
    /\ op' = "normalizePositive twice"
    /\ ret' = normalizePositive(normalizePositive(args.angle))
    /\ Unchanged
    /\ UNCHANGED controlVars

GetShortestAngle ==
    /\ op' = "getShortestAngle"
    /\ ret' = getShortestAngle(args.angle, args.to)
    /\ Unchanged
    /\ UNCHANGED controlVars

NextAngle ==
    \/ Normalize
    \/ NormalizePositive
    \/ NormalizePositiveTwice
    \/ GetShortestAngle

SpecAngle == InitAngle /\ [][NextAngle]_vars

\* the angle as a sum with pi sees it: 0 when it is below the roundoff
settled(angle) == IF Absorbed(angle, One) THEN Zero ELSE angle

\* a and b differ by a whole number of turns
sameDirection(a, b) ==
    LET turns == Div(Sub(a, b), Whole(2)) IN turns.d = 1 /\ turns.k = 0

C25_NormalizePositive ==
    /\ op = "normalizePositive" =>
          /\ LessEq(Zero, ret) /\ Less(ret, Whole(2))
          /\ sameDirection(ret, settled(args.angle))
    /\ op = "normalizePositive twice" => ret = normalizePositive(args.angle)


-----------------------------------------------------------------------------
(* PID.  The object is the record pid: its parameters (_param) and the state
   that reset() clears.  _diff[0], _diff[1], _diff[2] are diff[1], diff[2],
   diff[3]. *)

Modes == {"pPID", "sPID", "PI_D", "I_PD"}

\* PID::calculate_pPID
calculate_pPID(c, target, now_val, dt) ==
    LET p == Mul(c.gain.Kp, c.diff[1])
        i == Mul(c.gain.Ki, c.integral)
        d == Mul(c.gain.Kd, Div(Sub(c.diff[1], c.diff[2]), dt))
    IN  Add(Add(p, i), d)

\* PID::calculate_sPID
calculate_sPID(c, target, now_val, dt) ==
    LET p == Sub(Mul(c.gain.Kp, c.diff[1]), c.diff[2])
        i == Mul(Mul(c.gain.Ki, c.diff[1]), dt)
        d == Div(Mul(c.gain.Kd,
                     Add(Sub(c.diff[1], Mul(Whole(2), c.diff[2])), c.diff[3])),
                 dt)
    IN  Add(Add(Add(c.prev_val, p), i), d)

\* PID::calculate_PI_D
calculate_PI_D(c, target, now_val, dt) ==
    LET p == Mul(c.gain.Kp, c.diff[1])
        i == Mul(c.gain.Ki, c.integral)
        d == Mul(Neg(c.gain.Kd), Div(Sub(now_val, c.prev_val), dt))
    IN  Add(Add(p, i), d)

\* PID::calculate_I_PD
calculate_I_PD(c, target, now_val, dt) ==
    LET p == Mul(Neg(c.gain.Kp), now_val)
        i == Mul(c.gain.Ki, c.integral)
        d == Mul(Neg(c.gain.Kd), Div(Sub(now_val, c.prev_val), dt))
    IN  Add(Add(p, i), d)

\* PID::reset
PID_reset(c) ==
    [c EXCEPT !.diff = <<Zero, Zero, Zero>>,
              !.prev_val = Zero, !.prev_target = Zero,
              !.integral = Zero, !.output = Zero]

\* PID::setParam
PID_setParam(c, param) ==
    [c EXCEPT !.mode = param.mode, !.gain = param.gain,
              !.need_saturation = param.need_saturation,
              !.output_min = param.output_min,
              !.output_max = param.output_max]

\* PID::setGain
PID_setGain(c, gain) == [c EXCEPT !.gain = gain]

\* PID::setMode
PID_setMode(c, mode) == [c EXCEPT !.mode = mode]

\* setSaturation that brings the stored output into the new range at once
PID_setSaturation_applies(c, min_v, max_v) ==
    [c EXCEPT !.need_saturation = TRUE,
              !.output_min = min_v, !.output_max = max_v,
              !.output = guard(c.output, min_v, max_v)]

\* PID::setSaturation
PID_setSaturation(c, min_v, max_v) ==
    [c EXCEPT !.need_saturation = TRUE,
              !.output_min = min_v, !.output_max = max_v]

\* the integration step by the rectangle rule
PID_integrate_rectangle(c, dt) == Add(c.integral, Mul(c.diff[1], dt))

\* _integral += (_diff[0] + _diff[1]) * (dt / 2.0)
PID_integrate(c, dt) ==
    Add(c.integral, Mul(Add(c.diff[1], c.diff[2]), Div(dt, Whole(2))))

\* PID::update
PID_update(c, target, now_val, dt) ==
    LET c1 == [c EXCEPT !.diff[1] = Sub(target, now_val)]
        c2 == [c1 EXCEPT !.integral = PID_integrate(c1, dt)]
        c3 == [c2 EXCEPT !.output =
                   CASE c2.mode = "pPID" -> calculate_pPID(c2, target, now_val, dt)
                     [] c2.mode = "sPID" -> calculate_sPID(c2, target, now_val, dt)
                     [] c2.mode = "PI_D" -> calculate_PI_D(c2, target, now_val, dt)
                     [] c2.mode = "I_PD" -> calculate_I_PD(c2, target, now_val, dt)
                     [] OTHER -> c2.output]
        c4 == [c3 EXCEPT !.diff = <<c3.diff[1], c3.diff[1], c3.diff[2]>>,
                         !.prev_target = target, !.prev_val = now_val]
    IN  IF c4.need_saturation
        THEN [c4 EXCEPT !.output = guard(c4.output, c4.output_min, c4.output_max)]
        ELSE c4

\* PID::getControlValue
PID_getControlValue(c) == c.output

\* number of update calls in one behaviour
MaxUpdates == 2

\* the values an uninitialised member of type T may hold
Indeterminate == {Whole(5), NonFinite}

\* the values an uninitialised Mode may hold: an enumerator or none of them
IndeterminateModes == {"pPID", "other"}

Gains == {[Kp |-> One, Ki |-> One, Kd |-> One]}

\* the range of setSaturation
Ranges == {[min |-> Whole(-1), max |-> One]}

Parameters ==
    { [mode |-> "I_PD", gain |-> g, need_saturation |-> FALSE,
       output_min |-> Zero, output_max |-> Zero] : g \in Gains }
    \cup
    { [mode |-> "sPID", gain |-> g, need_saturation |-> TRUE,
       output_min |-> Zero, output_max |-> Whole(2)] : g \in Gains }

Targets == {One}
Values == {Zero, Whole(2), Whole(-1)}
Steps == {One, Whole(2)}

\* an object whose members all hold indeterminate values
Uninitialised(v, m, b) ==
    [mode |-> m, gain |-> [Kp |-> v, Ki |-> v, Kd |-> v],
     need_saturation |-> b, output_min |-> v, output_max |-> v,
     diff |-> <<v, v, v>>, prev_val |-> v, prev_target |-> v,
     integral |-> v, output |-> v]

\* PID(kp, ki, kd) and PID(param): the members they do not write are
\* indeterminate
InitPID ==
    /\ \E v \in Indeterminate :
          \/ \E g \in Gains, m \in IndeterminateModes, b \in BOOLEAN :
                 pid = PID_setGain(Uninitialised(v, m, b), g)
          \/ \E param \in Parameters :
                 pid = PID_setParam(Uninitialised(v, "other", FALSE), param)
    /\ args = NoCall
    /\ trace = [sinceReset |-> FALSE, steps |-> <<>>]
    /\ limited = FALSE
    /\ line1 = DefaultLine /\ line2 = DefaultLine /\ pt = Origin
    /\ op = "none" /\ ret = FALSE /\ out = <<>>
    /\ vec = [x |-> Zero, y |-> Zero] /\ pose = Origin
    /\ last = NoCall /\ prev = NoCall /\ calls = 0
    /\ lhs = Origin /\ rhs = Origin /\ tparam = Zero

\* what a call of a void member function leaves in ret
NoValue == "void"

PIDFrame ==
    /\ UNCHANGED <<line1, line2, pt, out>>
    /\ UNCHANGED <<vec, pose, last, prev>>
    /\ UNCHANGED operandVars

Reset ==
    /\ op' = "reset"
    /\ pid' = PID_reset(pid)
    /\ trace' = [sinceReset |-> TRUE, steps |-> <<>>]
    /\ ret' = NoValue
    /\ UNCHANGED <<args, limited, calls>>
    /\ PIDFrame

SetParam ==
    \E param \in Parameters :
        /\ op' = "setParam"
        /\ pid' = PID_setParam(pid, param)
        /\ limited' = FALSE
        /\ ret' = NoValue
        /\ UNCHANGED <<args, trace, calls>>
        /\ PIDFrame

SetGain ==
    \E g \in Gains :
        /\ op' = "setGain"
        /\ pid' = PID_setGain(pid, g)
        /\ ret' = NoValue
        /\ UNCHANGED <<args, trace, limited, calls>>
        /\ PIDFrame

SetMode ==
    \E m \in Modes :
        /\ op' = "setMode"
        /\ pid' = PID_setMode(pid, m)
        /\ ret' = NoValue
        /\ UNCHANGED <<args, trace, limited, calls>>
        /\ PIDFrame

SetSaturation ==
    \E r \in Ranges :
        /\ op' = "setSaturation"
        /\ pid' = PID_setSaturation(pid, r.min, r.max)
        /\ limited' = LessEq(r.min, r.max)
        /\ ret' = NoValue
        /\ UNCHANGED <<args, trace, calls>>
        /\ PIDFrame

Update ==
    \E target \in Targets, now_val \in Values, dt \in Steps :
        /\ calls < MaxUpdates
        /\ calls' = calls + 1
        /\ op' = "update"
        /\ args' = [target |-> target, now_val |-> now_val, dt |-> dt]
        /\ pid' = PID_update(pid, target, now_val, dt)
        /\ trace' = [trace EXCEPT
                        !.steps = Append(@, <<Sub(target, now_val), dt>>)]
        /\ ret' = NoValue
        /\ UNCHANGED limited
        /\ PIDFrame

GetControlValue ==
    /\ op' = "getControlValue"
    /\ ret' = PID_getControlValue(pid)
    /\ UNCHANGED <<args, pid, trace, limited, calls>>
    /\ PIDFrame

NextPID ==
    \/ Reset
    \/ SetParam
    \/ SetGain
    \/ SetMode
    \/ SetSaturation
    \/ Update
    \/ GetControlValue

SpecPID == InitPID /\ [][NextPID]_vars


\* the sum over the steps <<e_k, dt_k>> of (e_k + e_(k-1)) * dt_k / 2, e_0 = 0
RECURSIVE trapezoids(_, _)
trapezoids(steps, n) ==
    IF n = 0 THEN Zero
    ELSE LET e == steps[n][1]
             before == IF n = 1 THEN Zero ELSE steps[n - 1][1]
         IN  Add(trapezoids(steps, n - 1),
                 Div(Mul(Add(e, before), steps[n][2]), Whole(2)))

errorAt(steps, n) == IF n >= 1 THEN steps[n][1] ELSE Zero

\* C26: from reset() on, the integral is the trapezoid sum of the errors of
\* the updates made since, _diff[1] is the last error and _diff[2] the one
\* before it, whatever the mode and whether or not the output was saturated.
C26_TrapezoidIntegral ==
    trace.sinceReset =>
        LET n == Len(trace.steps)
        IN  /\ Eq(pid.integral, trapezoids(trace.steps, n))
            /\ Eq(pid.diff[2], errorAt(trace.steps, n))
            /\ Eq(pid.diff[3], errorAt(trace.steps, n - 1))

\* two updates after a reset, the second one saturated at output_max, the
\* integral beyond output_max
C26_Witness ==
    /\ op = "update"
    /\ trace.sinceReset /\ Len(trace.steps) = 2
    /\ pid.need_saturation
    /\ pid.output = pid.output_max
    /\ Greater(pid.integral, pid.output_max)
    /\ ~Eq(pid.diff[2], pid.diff[3])

\* C23: the control value changes only in update(): setParam, setGain,
\* setMode, setSaturation and getControlValue leave it as it is,
\* getControlValue returns it, and reset() makes it 0.
C23_OutputFrame ==
    [][ /\ op' \notin {"update", "reset"} => pid'.output = pid.output
        /\ op' = "getControlValue" => ret' = pid.output
        /\ op' = "reset" => pid'.output = Zero ]_vars

\* a range set after an update whose output lies outside it: the value read
\* next is still the old one
C23_Witness ==
    /\ op = "getControlValue"
    /\ limited
    /\ trace.sinceReset /\ Len(trace.steps) >= 1
    /\ Greater(ret, pid.output_max)

\* C22: once setSaturation(min, max) with min <= max has been called, the
\* control value after every update with dt > 0 lies in [min, max].
C22_OutputSaturated ==
    (op = "update" /\ limited /\ Greater(args.dt, Zero)) =>
        /\ LessEq(pid.output_min, pid.output)
        /\ LessEq(pid.output, pid.output_max)

====
